---- MODULE Spec2Model ----
(***************************************************************************)
(* A model of app/server/server.js of FnOS_UI_Mods: the backup manager     *)
(* (ensureBackup, restoreOriginal), the content patcher (injectCode,       *)
(* injectBlock, readTextFromPath) and getStatus.                           *)
(*                                                                         *)
(* A text is a sequence of tokens; a token is a piece of text that holds   *)
(* no line break and no part of a marker, except the tokens the markers    *)
(* and the line breaks are made of.  A file is a record: whether it        *)
(* exists, its bytes (a text) and its permission mode.  Every await of the *)
(* source is one step of the request that runs it.                         *)
(***************************************************************************)
EXTENDS Integers, Sequences, FiniteSets, TLC

\* ------------------------------------------------------------------ bounds

\* How many times in a row the same call (same operation, same payload) is run.
MaxReps == 3
\* How many pieces the input file of a direct injectBlock call is made of.
MaxPieces == 4

\* ------------------------------------------------------------------- texts

LF == "\n"
CR == "\r"

\* '</head>' and '</body>', each two tokens long so that a partial match exists.
HeadMarker == <<"</", "head>">>
BodyMarker == <<"</", "body>">>

\* JavaScript truthiness of a string-or-null: null and '' are both falsy;
\* the code only ever tests these values for truthiness, so both are <<>>.
Truthy(s) == s # <<>>

\* String.prototype.indexOf, 1-based: the first position where marker starts
\* in line, 0 when there is none (JavaScript's -1).
IndexOf(line, m) ==
  LET starts == {i \in 1..(Len(line) - Len(m) + 1) : SubSeq(line, i, i + Len(m) - 1) = m}
  IN  IF starts = {} THEN 0 ELSE CHOOSE i \in starts : \A j \in starts : i <= j

\* String.prototype.includes
Includes(line, m) == IndexOf(line, m) # 0

\* Array.prototype.join('\n')
RECURSIVE JoinLF(_)
JoinLF(ls) ==
  IF ls = <<>> THEN <<>>
  ELSE IF Len(ls) = 1 THEN ls[1]
  ELSE ls[1] \o <<LF>> \o JoinLF(Tail(ls))

\* The lines readline yields for the bytes s from position i on, cur being the
\* line read so far: '\n', '\r\n' and a bare '\r' each end a line
\* (crlfDelay: Infinity), and a last line without a line break is yielded when
\* it is not empty.
RECURSIVE ReadLinesFrom(_, _, _)
ReadLinesFrom(s, i, cur) ==
  IF i > Len(s) THEN (IF Len(cur) > 0 THEN <<cur>> ELSE <<>>)
  ELSE IF s[i] = LF THEN <<cur>> \o ReadLinesFrom(s, i + 1, <<>>)
  ELSE IF s[i] = CR THEN
         IF i + 1 <= Len(s) /\ s[i + 1] = LF
         THEN <<cur>> \o ReadLinesFrom(s, i + 2, <<>>)
         ELSE <<cur>> \o ReadLinesFrom(s, i + 1, <<>>)
  ELSE ReadLinesFrom(s, i + 1, Append(cur, s[i]))

ReadLines(s) == ReadLinesFrom(s, 1, <<>>)

\* ------------------------------------------------------------------- files

Mode644 == 420

NoFile == [exists |-> FALSE, data |-> <<>>, mode |-> 0]
File(d, m) == [exists |-> TRUE, data |-> d, mode |-> m]

\* fsp.copyFile(src, dst) with src present: dst gets the bytes of src, and
\* (libuv's copyfile) its permission bits.
CopyFile(src) == File(src.data, src.mode)

\* fsp.chmod(path, 0o644)
Chmod644(f) == [f EXCEPT !.mode = Mode644]

\* The mode a file created by fs.createWriteStream gets: 0o666 less the
\* process umask, which the program does not set (022 or 077 here).
TempModes == {420, 384}

\* The payload files a request can name: a readable text file, an empty file,
\* a directory, and a path that does not exist.
PathOk == "/mods/ok.txt"
PathEmpty == "/mods/empty.txt"
PathDir == "/mods"
PathMissing == "/mods/missing.txt"

PathKind(path) ==
  IF path \in {PathOk, PathEmpty} THEN "file"
  ELSE IF path = PathDir THEN "dir"
  ELSE "none"

PathText(path) == IF path = PathOk THEN <<"from-file">> ELSE <<>>

\* ----------------------------------------------------------------- results

Ok(v) == [ok |-> TRUE, value |-> v, marker |-> <<>>]
Err(v) == [ok |-> FALSE, value |-> v, marker |-> <<>>]

ErrSystemFileNotFound == Err("system file not found")
ErrNoBackup == Err("no backup found")
ErrNotAFile == Err("path is not a file")
ErrENOENT == Err("ENOENT")
ErrInsertionPoint(m) == [ok |-> FALSE, value |-> "insertion point not found", marker |-> m]
NoResult == Err("none")

\* What a failing stream or a failing copyFile rejects with.
ErrRead == Err("read error")
ErrWrite == Err("write error")
ErrCopy == Err("copy error")

StatusValue(i, b) ==
  IF i /\ b THEN "index,backup"
  ELSE IF i THEN "index"
  ELSE IF b THEN "backup"
  ELSE "neither"

\* ------------------------------------------------------------- injectBlock

\* The blocks injectCode hands to injectBlock.
StyleBlock(css) == << <<"<style>">>, <<"/* Injected CSS */">>, css, <<"</style>">> >>
ScriptBlock(js) == << <<"<script>">>, <<"// Injected JS">>, js, <<"</script>">> >>

\* LoopBody without the test of inserted: the block goes before every line
\* that contains the marker.
LoopBody_EveryMatch(line, m, block, st) ==
  IF Includes(line, m)
  THEN LET idx == IndexOf(line, m)
           before == SubSeq(line, 1, idx - 1)
           after == SubSeq(line, idx, Len(line))
           w1 == IF Len(before) > 0 THEN st.written \o before \o <<LF>> ELSE st.written
           w2 == w1 \o JoinLF(block) \o <<LF>>
           w3 == w2 \o after \o <<LF>>
       IN  [inserted |-> TRUE, written |-> w3]
  ELSE [inserted |-> st.inserted, written |-> st.written \o line \o <<LF>>]

\* What one iteration of the for-await loop of injectBlock does with line,
\* st being [inserted, written]: the bytes handed to the writer so far.
LoopBody(line, m, block, st) ==
  IF ~st.inserted /\ Includes(line, m)
  THEN LET idx == IndexOf(line, m)
           before == SubSeq(line, 1, idx - 1)
           after == SubSeq(line, idx, Len(line))
           w1 == IF Len(before) > 0 THEN st.written \o before \o <<LF>> ELSE st.written
           w2 == w1 \o JoinLF(block) \o <<LF>>
           w3 == w2 \o after \o <<LF>>
       IN  [inserted |-> TRUE, written |-> w3]
  ELSE [inserted |-> st.inserted, written |-> st.written \o line \o <<LF>>]

\* The for-await loop over the lines k.. of the reader.
RECURSIVE ForAwait(_, _, _, _, _)
ForAwait(lines, k, m, block, st) ==
  IF k > Len(lines) THEN st
  ELSE ForAwait(lines, k + 1, m, block, LoopBody(lines[k], m, block, st))

\* The whole scan of the bytes of the input file.
Scan(data, m, block) ==
  ForAwait(ReadLines(data), 1, m, block, [inserted |-> FALSE, written |-> <<>>])

\* readTextFromPath: stat, isFile, readFile.
ReadTextFromPath(path) ==
  IF PathKind(path) = "none" THEN [ok |-> FALSE, err |-> ErrENOENT, text |-> <<>>]
  ELSE IF PathKind(path) # "file" THEN [ok |-> FALSE, err |-> ErrNotAFile, text |-> <<>>]
  ELSE [ok |-> TRUE, err |-> NoResult, text |-> PathText(path)]

\* Resolve with the two tests the other way round: the inline text first.
Resolve_InlineFirst(path, text) ==
  IF Truthy(text) THEN [ok |-> TRUE, err |-> NoResult, text |-> text]
  ELSE IF path # "" THEN ReadTextFromPath(path)
  ELSE [ok |-> TRUE, err |-> NoResult, text |-> <<>>]

\* One channel of injectCode: if (path) readTextFromPath(path) else if (text)
\* text, else null.
Resolve(path, text) ==
  IF path # "" THEN ReadTextFromPath(path)
  ELSE IF Truthy(text) THEN [ok |-> TRUE, err |-> NoResult, text |-> text]
  ELSE [ok |-> TRUE, err |-> NoResult, text |-> <<>>]

\* ------------------------------------------------------------------- state

Procs == {1, 2}
\* The request that runs in a sequential execution.
Seq1 == {1}

VARIABLES
  index,       \* INDEX_FILE, the target file
  backup,      \* BACKUP_FILE
  tempFile,    \* tempFile of each request's injectBlock call
  pc,          \* where each request stands ("idle": none running)
  op,          \* the operation of each request (kept once it has ended)
  args,        \* the payload of each request: cssText, jsText, cssPath, jsPath
  finalCss,    \* of injectCode
  finalJs,     \* of injectCode
  marker,      \* of injectBlock
  blockLines,  \* of injectBlock
  inserted,    \* of injectBlock
  result,      \* what each request returned or threw
  pre,         \* the files as they were when each request started
  reps,        \* how many times in a row the same call has been started
  firstPost,   \* the target file after the first call of that row ended
  prev         \* while restoreOriginal runs: the call that ended just before it

vars == <<index, backup, tempFile, pc, op, args, finalCss, finalJs, marker,
          blockLines, inserted, result, pre, reps, firstPost, prev>>

NoArgs == [cssText |-> <<>>, jsText |-> <<>>, cssPath |-> "", jsPath |-> ""]
NoPre == [index |-> NoFile, backup |-> NoFile]
NoPrev == [op |-> "none", args |-> NoArgs, pre |-> NoPre, result |-> NoResult]

\* The inline texts and the file references a request body can carry.
CssTexts == {<<>>, <<"a{color:red}">>, <<"x">> \o BodyMarker}
JsTexts == {<<>>, <<"alert(1)">>}
CssPaths == {"", PathOk, PathEmpty, PathDir, PathMissing}
JsPaths == {"", PathOk, PathMissing}

Payloads ==
  {[cssText |-> ct, jsText |-> jt, cssPath |-> cp, jsPath |-> jp] :
     ct \in CssTexts, jt \in JsTexts, cp \in CssPaths, jp \in JsPaths}

Ops == {"ensureBackup", "restoreOriginal", "injectCode", "getStatus"}

\* The contents the target file and the backup file can have at start-up.
PageLF == <<"<head>", LF>> \o HeadMarker \o <<LF, "<body>", LF>> \o BodyMarker \o <<LF>>
PageOneLine == <<"<head>">> \o HeadMarker \o <<"<body>">> \o BodyMarker
PageCRLF == HeadMarker \o <<CR, LF>> \o BodyMarker \o <<CR, LF>>
PageNoBody == <<"<head>", LF>> \o HeadMarker \o <<LF>>
PageNoMarker == <<"plain", LF>>
PageTwoHeads ==
  <<"<head>">> \o HeadMarker \o HeadMarker \o <<LF>> \o HeadMarker \o BodyMarker \o <<LF>>

IndexTexts == {PageLF, PageOneLine, PageCRLF, PageNoBody, PageNoMarker, PageTwoHeads}
BackupTexts == {PageLF, PageNoBody}
StartModes == {420, 384}

IndexFiles == {NoFile} \cup {File(d, m) : d \in IndexTexts, m \in StartModes}
BackupFiles == {NoFile} \cup {File(d, 420) : d \in BackupTexts}

Init ==
  /\ index \in IndexFiles
  /\ backup \in BackupFiles
  /\ tempFile = [p \in Procs |-> NoFile]
  /\ pc = [p \in Procs |-> "idle"]
  /\ op = [p \in Procs |-> "none"]
  /\ args = [p \in Procs |-> NoArgs]
  /\ finalCss = [p \in Procs |-> <<>>]
  /\ finalJs = [p \in Procs |-> <<>>]
  /\ marker = [p \in Procs |-> <<>>]
  /\ blockLines = [p \in Procs |-> <<>>]
  /\ inserted = [p \in Procs |-> FALSE]
  /\ result = [p \in Procs |-> NoResult]
  /\ pre = [p \in Procs |-> NoPre]
  /\ reps = [p \in Procs |-> 0]
  /\ firstPost = [p \in Procs |-> NoFile]
  /\ prev = [p \in Procs |-> NoPrev]

\* ----------------------------------------------------------------- control

\* The request goes on to the step l.
Goto(p, l) ==
  /\ pc' = [pc EXCEPT ![p] = l]
  /\ UNCHANGED <<result, firstPost>>

\* The request ends with res (a return value or a thrown error, which nothing
\* in the core catches), the target file then being idx.
Complete(p, res, idx) ==
  /\ pc' = [pc EXCEPT ![p] = "idle"]
  /\ result' = [result EXCEPT ![p] = res]
  /\ firstPost' = IF reps[p] = 1 THEN [firstPost EXCEPT ![p] = idx] ELSE firstPost

\* FirstStep with injectCode going straight to its payload: no ensureBackup
\* and no copy of the backup file first.
FirstStep_NoBackup(o) ==
  IF o = "ensureBackup" THEN "eb_accessBackup"
  ELSE IF o = "restoreOriginal" THEN "ro_access"
  ELSE IF o = "injectCode" THEN "ic_css"
  ELSE "gs_stat"

FirstStep(o) ==
  IF o = "ensureBackup" THEN "eb_accessBackup"
  ELSE IF o = "restoreOriginal" THEN "ro_access"
  ELSE IF o = "injectCode" THEN "eb_accessBackup"
  ELSE "gs_stat"

\* The router hands a request to its operation.
Start(p) ==
  /\ pc[p] = "idle"
  /\ \E o \in Ops :
       \E a \in (IF o = "injectCode" THEN Payloads ELSE {NoArgs}) :
         LET same == op[p] = o /\ args[p] = a
         IN  /\ same => reps[p] < MaxReps
             /\ reps' = [reps EXCEPT ![p] = IF same THEN @ + 1 ELSE 1]
             /\ op' = [op EXCEPT ![p] = o]
             /\ args' = [args EXCEPT ![p] = a]
             /\ pc' = [pc EXCEPT ![p] = FirstStep(o)]
             /\ prev' = [prev EXCEPT ![p] =
                          IF o = "restoreOriginal"
                          THEN [op |-> op[p], args |-> args[p], pre |-> pre[p],
                                result |-> result[p]]
                          ELSE NoPrev]
  /\ pre' = [pre EXCEPT ![p] = [index |-> index, backup |-> backup]]
  /\ finalCss' = [finalCss EXCEPT ![p] = <<>>]
  /\ finalJs' = [finalJs EXCEPT ![p] = <<>>]
  /\ marker' = [marker EXCEPT ![p] = <<>>]
  /\ blockLines' = [blockLines EXCEPT ![p] = <<>>]
  /\ inserted' = [inserted EXCEPT ![p] = FALSE]
  /\ result' = [result EXCEPT ![p] = NoResult]
  /\ UNCHANGED <<index, backup, tempFile, firstPost>>

\* ------------------------------------------------------------ ensureBackup

\* EBAccessBackup without the early return: the copy is made every time.
EBAccessBackup_NoCheck(p) ==
  /\ pc[p] = "eb_accessBackup"
  /\ Goto(p, "eb_accessIndex")
  /\ UNCHANGED <<index, backup, tempFile, op, args, finalCss, finalJs, marker,
                 blockLines, inserted, pre, reps, prev>>

\* mkdir(BACKUP_DIR); access(BACKUP_FILE): present, return {created: false}.
EBAccessBackup(p) ==
  /\ pc[p] = "eb_accessBackup"
  /\ IF backup.exists
     THEN IF op[p] = "ensureBackup"
          THEN Complete(p, Ok("created:false"), index)
          ELSE Goto(p, "ic_copyFile")
     ELSE Goto(p, "eb_accessIndex")
  /\ UNCHANGED <<index, backup, tempFile, op, args, finalCss, finalJs, marker,
                 blockLines, inserted, pre, reps, prev>>

\* access(INDEX_FILE): absent, throw 'system file not found'.
EBAccessIndex(p) ==
  /\ pc[p] = "eb_accessIndex"
  /\ IF index.exists
     THEN Goto(p, "eb_copyFile")
     ELSE Complete(p, ErrSystemFileNotFound, index)
  /\ UNCHANGED <<index, backup, tempFile, op, args, finalCss, finalJs, marker,
                 blockLines, inserted, pre, reps, prev>>

\* EBCopyFile moving the target file instead of copying it.
EBCopyFile_Rename(p) ==
  /\ pc[p] = "eb_copyFile"
  /\ IF index.exists
     THEN /\ backup' = CopyFile(index)
          /\ index' = NoFile
          /\ IF op[p] = "ensureBackup"
             THEN Complete(p, Ok("created:true"), NoFile)
             ELSE Goto(p, "ic_copyFile")
     ELSE /\ UNCHANGED <<index, backup>>
          /\ Complete(p, ErrENOENT, index)
  /\ UNCHANGED <<tempFile, op, args, finalCss, finalJs, marker,
                 blockLines, inserted, pre, reps, prev>>

\* copyFile(INDEX_FILE, BACKUP_FILE); return {created: true}.
EBCopyFile(p) ==
  /\ pc[p] = "eb_copyFile"
  /\ IF index.exists
     THEN /\ backup' = CopyFile(index)
          /\ IF op[p] = "ensureBackup"
             THEN Complete(p, Ok("created:true"), index)
             ELSE Goto(p, "ic_copyFile")
     ELSE /\ UNCHANGED backup
          /\ Complete(p, ErrENOENT, index)
  /\ UNCHANGED <<index, tempFile, op, args, finalCss, finalJs, marker,
                 blockLines, inserted, pre, reps, prev>>

\* --------------------------------------------------------- restoreOriginal

\* ROAccess without the test: the copy is tried whatever access says.
ROAccess_NoCheck(p) ==
  /\ pc[p] = "ro_access"
  /\ Goto(p, "ro_copyFile")
  /\ UNCHANGED <<index, backup, tempFile, op, args, finalCss, finalJs, marker,
                 blockLines, inserted, pre, reps, prev>>

\* access(BACKUP_FILE): absent, throw 'no backup found'.
ROAccess(p) ==
  /\ pc[p] = "ro_access"
  /\ IF backup.exists
     THEN Goto(p, "ro_copyFile")
     ELSE Complete(p, ErrNoBackup, index)
  /\ UNCHANGED <<index, backup, tempFile, op, args, finalCss, finalJs, marker,
                 blockLines, inserted, pre, reps, prev>>

\* copyFile(BACKUP_FILE, INDEX_FILE)
ROCopyFile(p) ==
  /\ pc[p] = "ro_copyFile"
  /\ IF backup.exists
     THEN /\ index' = CopyFile(backup)
          /\ Goto(p, "ro_chmod")
     ELSE /\ UNCHANGED index
          /\ Complete(p, ErrENOENT, index)
  /\ UNCHANGED <<backup, tempFile, op, args, finalCss, finalJs, marker,
                 blockLines, inserted, pre, reps, prev>>

\* ROChmod without the chmod.
ROChmod_Skipped(p) ==
  /\ pc[p] = "ro_chmod"
  /\ Complete(p, Ok("restored"), index)
  /\ UNCHANGED <<index, backup, tempFile, op, args, finalCss, finalJs, marker,
                 blockLines, inserted, pre, reps, prev>>

\* chmod(INDEX_FILE, 0o644)
ROChmod(p) ==
  /\ pc[p] = "ro_chmod"
  /\ IF index.exists
     THEN /\ index' = Chmod644(index)
          /\ Complete(p, Ok("restored"), Chmod644(index))
     ELSE /\ UNCHANGED index
          /\ Complete(p, ErrENOENT, index)
  /\ UNCHANGED <<backup, tempFile, op, args, finalCss, finalJs, marker,
                 blockLines, inserted, pre, reps, prev>>

\* -------------------------------------------------------------- injectCode

\* ICCopyFile without the copy: the insertions work on the target as it is.
ICCopyFile_Skipped(p) ==
  /\ pc[p] = "ic_copyFile"
  /\ Goto(p, "ic_css")
  /\ UNCHANGED <<index, backup, tempFile, op, args, finalCss, finalJs, marker,
                 blockLines, inserted, pre, reps, prev>>

\* copyFile(BACKUP_FILE, INDEX_FILE), once ensureBackup has returned.
ICCopyFile(p) ==
  /\ pc[p] = "ic_copyFile"
  /\ IF backup.exists
     THEN /\ index' = CopyFile(backup)
          /\ Goto(p, "ic_css")
     ELSE /\ UNCHANGED index
          /\ Complete(p, ErrENOENT, index)
  /\ UNCHANGED <<backup, tempFile, op, args, finalCss, finalJs, marker,
                 blockLines, inserted, pre, reps, prev>>

\* finalCss: from cssPath, else from cssText, else null.
ICCss(p) ==
  /\ pc[p] = "ic_css"
  /\ LET r == Resolve(args[p].cssPath, args[p].cssText)
     IN  IF r.ok
         THEN /\ finalCss' = [finalCss EXCEPT ![p] = r.text]
              /\ Goto(p, "ic_js")
         ELSE /\ UNCHANGED finalCss
              /\ Complete(p, r.err, index)
  /\ UNCHANGED <<index, backup, tempFile, op, args, finalJs, marker,
                 blockLines, inserted, pre, reps, prev>>

\* CallCss with the marker of the script block.
CallCss_AtBody(p) ==
  /\ marker' = [marker EXCEPT ![p] = BodyMarker]
  /\ blockLines' = [blockLines EXCEPT ![p] = StyleBlock(finalCss[p])]
  /\ inserted' = [inserted EXCEPT ![p] = FALSE]
  /\ Goto(p, "ib_scan")

\* The call of injectBlock for the style block.
CallCss(p) ==
  /\ marker' = [marker EXCEPT ![p] = HeadMarker]
  /\ blockLines' = [blockLines EXCEPT ![p] = StyleBlock(finalCss[p])]
  /\ inserted' = [inserted EXCEPT ![p] = FALSE]
  /\ Goto(p, "ib_scan")

\* The call of injectBlock for the script block, js being finalJs.
CallJs(p, js) ==
  /\ marker' = [marker EXCEPT ![p] = BodyMarker]
  /\ blockLines' = [blockLines EXCEPT ![p] = ScriptBlock(js)]
  /\ inserted' = [inserted EXCEPT ![p] = FALSE]
  /\ Goto(p, "ib_scan")

\* finalJs: from jsPath, else from jsText, else null; with neither a style nor
\* a script return {injected: false}, else go on to the first insertion.
ICJs(p) ==
  /\ pc[p] = "ic_js"
  /\ LET r == Resolve(args[p].jsPath, args[p].jsText)
     IN  IF r.ok
         THEN /\ finalJs' = [finalJs EXCEPT ![p] = r.text]
              /\ IF ~Truthy(finalCss[p]) /\ ~Truthy(r.text)
                 THEN /\ Complete(p, Ok("injected:false"), index)
                      /\ UNCHANGED <<marker, blockLines, inserted>>
                 ELSE IF Truthy(finalCss[p])
                      THEN CallCss(p)
                      ELSE CallJs(p, r.text)
         ELSE /\ UNCHANGED <<finalJs, marker, blockLines, inserted>>
              /\ Complete(p, r.err, index)
  /\ UNCHANGED <<index, backup, tempFile, op, args, finalCss, pre, reps, prev>>

\* chmod(INDEX_FILE, 0o644); return {injected: true}.
ICChmod(p) ==
  /\ pc[p] = "ic_chmod"
  /\ IF index.exists
     THEN /\ index' = Chmod644(index)
          /\ Complete(p, Ok("injected:true"), Chmod644(index))
     ELSE /\ UNCHANGED index
          /\ Complete(p, ErrENOENT, index)
  /\ UNCHANGED <<backup, tempFile, op, args, finalCss, finalJs, marker,
                 blockLines, inserted, pre, reps, prev>>

\* ------------------------------------------------------------- injectBlock

\* The temp file is created and the input file is read line by line, every
\* line or the block going to the writer.
IBScan(p) ==
  /\ pc[p] = "ib_scan"
  /\ index.exists
  /\ LET st == Scan(index.data, marker[p], blockLines[p])
     IN  /\ \E m \in TempModes :
              tempFile' = [tempFile EXCEPT ![p] = File(st.written, m)]
         /\ inserted' = [inserted EXCEPT ![p] = st.inserted]
  /\ Goto(p, "ib_finish")
  /\ UNCHANGED <<index, backup, op, args, finalCss, finalJs, marker,
                 blockLines, pre, reps, prev>>

\* IBFinish without the test of inserted: the copy is made in any case.
IBFinish_NoTest(p) ==
  /\ pc[p] = "ib_finish"
  /\ Goto(p, "ib_copyFile")
  /\ UNCHANGED <<index, backup, tempFile, op, args, finalCss, finalJs, marker,
                 blockLines, inserted, pre, reps, prev>>

\* writer.end() and its 'finish'; then the test of inserted.
IBFinish(p) ==
  /\ pc[p] = "ib_finish"
  /\ Goto(p, IF inserted[p] THEN "ib_copyFile" ELSE "ib_unlinkThrow")
  /\ UNCHANGED <<index, backup, tempFile, op, args, finalCss, finalJs, marker,
                 blockLines, inserted, pre, reps, prev>>

\* IBUnlinkThrow returning to injectCode instead of throwing.
IBUnlinkThrow_Continue(p) ==
  /\ pc[p] = "ib_unlinkThrow"
  /\ tempFile' = [tempFile EXCEPT ![p] = NoFile]
  /\ IF op[p] = "injectCode"
     THEN Goto(p, "ic_chmod")
     ELSE Complete(p, ErrInsertionPoint(marker[p]), index)
  /\ UNCHANGED <<index, backup, op, args, finalCss, finalJs, marker,
                 blockLines, inserted, pre, reps, prev>>

\* Nothing inserted: unlink(tempFile), throw 'insertion point not found'.
IBUnlinkThrow(p) ==
  /\ pc[p] = "ib_unlinkThrow"
  /\ tempFile' = [tempFile EXCEPT ![p] = NoFile]
  /\ Complete(p, ErrInsertionPoint(marker[p]), index)
  /\ UNCHANGED <<index, backup, op, args, finalCss, finalJs, marker,
                 blockLines, inserted, pre, reps, prev>>

\* copyFile(tempFile, inputPath)
IBCopyFile(p) ==
  /\ pc[p] = "ib_copyFile"
  /\ IF tempFile[p].exists
     THEN /\ index' = CopyFile(tempFile[p])
          /\ Goto(p, "ib_unlink")
     ELSE /\ UNCHANGED index
          /\ Complete(p, ErrENOENT, index)
  /\ UNCHANGED <<backup, tempFile, op, args, finalCss, finalJs, marker,
                 blockLines, inserted, pre, reps, prev>>

\* unlink(tempFile) and the return to the caller: injectCode goes on to the
\* script block after the style block, and to its chmod after the last block.
IBUnlink(p) ==
  /\ pc[p] = "ib_unlink"
  /\ tempFile' = [tempFile EXCEPT ![p] = NoFile]
  /\ IF op[p] = "injectBlock"
     THEN /\ Complete(p, Ok("returned"), index)
          /\ UNCHANGED <<marker, blockLines, inserted>>
     ELSE IF marker[p] = HeadMarker /\ Truthy(finalJs[p])
          THEN CallJs(p, finalJs[p])
          ELSE /\ Goto(p, "ic_chmod")
               /\ UNCHANGED <<marker, blockLines, inserted>>
  /\ UNCHANGED <<index, backup, op, args, finalCss, finalJs, pre, reps, prev>>

\* ------------------------------------------------ injectBlock, I/O failures

\* The read stream fails after k lines: the for-await loop throws (or, where
\* readline does not forward the error, the process dies); either way the
\* call ends there, the writer is never ended and nothing unlinks the temp
\* file, which holds what was written so far.
IBScanFails(p) ==
  /\ pc[p] = "ib_scan"
  /\ index.exists
  /\ \E k \in 0..Len(ReadLines(index.data)) :
       LET st == ForAwait(SubSeq(ReadLines(index.data), 1, k), 1, marker[p],
                          blockLines[p], [inserted |-> FALSE, written |-> <<>>])
       IN  /\ \E m \in TempModes :
                tempFile' = [tempFile EXCEPT ![p] = File(st.written, m)]
           /\ inserted' = [inserted EXCEPT ![p] = st.inserted]
  /\ Complete(p, ErrRead, index)
  /\ UNCHANGED <<index, backup, op, args, finalCss, finalJs, marker,
                 blockLines, pre, reps, prev>>

\* The writer emits 'error' (disk full, say): the promise of lines 144-149
\* rejects and injectBlock throws; the temp file stays, with nothing or with
\* all of the data in it.
IBFinishFails(p) ==
  /\ pc[p] = "ib_finish"
  /\ \E d \in {<<>>, tempFile[p].data} :
       tempFile' = [tempFile EXCEPT ![p] = File(d, tempFile[p].mode)]
  /\ Complete(p, ErrWrite, index)
  /\ UNCHANGED <<index, backup, op, args, finalCss, finalJs, marker,
                 blockLines, inserted, pre, reps, prev>>

\* copyFile(tempFile, inputPath) fails, before it opened the input file or
\* after it truncated it: injectBlock throws and line 157 is not run.
IBCopyFileFails(p) ==
  /\ pc[p] = "ib_copyFile"
  /\ index.exists
  /\ \E f \in {index, File(<<>>, index.mode)} :
       /\ index' = f
       /\ Complete(p, ErrCopy, f)
  /\ UNCHANGED <<backup, tempFile, op, args, finalCss, finalJs, marker,
                 blockLines, inserted, pre, reps, prev>>

\* --------------------------------------------------------------- getStatus

GSStat(p) ==
  /\ pc[p] = "gs_stat"
  /\ Complete(p, Ok(StatusValue(index.exists, backup.exists)), index)
  /\ UNCHANGED <<index, backup, tempFile, op, args, finalCss, finalJs, marker,
                 blockLines, inserted, pre, reps, prev>>

\* ---------------------------------------------------------- specifications

\* A step of request p.
Step(p) ==
  \/ EBAccessBackup(p) \/ EBAccessIndex(p) \/ EBCopyFile(p)
  \/ ROAccess(p) \/ ROCopyFile(p) \/ ROChmod(p)
  \/ ICCopyFile(p) \/ ICCss(p) \/ ICJs(p) \/ ICChmod(p)
  \/ IBScan(p) \/ IBFinish(p) \/ IBUnlinkThrow(p) \/ IBCopyFile(p) \/ IBUnlink(p)
  \/ GSStat(p)

\* Sequential execution: one request at a time, each run to its end.
Next == \E p \in Seq1 : Start(p) \/ Step(p)

Spec == Init /\ [][Next]_vars

\* A direct call injectBlock(INDEX_FILE, marker, blockLines), as a test of the
\* function alone makes it: the input file is any text of up to MaxPieces
\* pieces.
Pieces == {<<"<head>">>, <<"</">>, HeadMarker, BodyMarker, <<LF>>, <<CR>>}

RECURSIVE TextsOf(_)
TextsOf(n) ==
  IF n = 0 THEN {<<>>}
  ELSE LET T == TextsOf(n - 1) IN T \cup {t \o q : t \in T, q \in Pieces}

Markers == {HeadMarker, BodyMarker}
Blocks == { << <<"X">> >>, StyleBlock(<<"c", LF>> \o HeadMarker) }

InitBlock ==
  /\ index \in {File(d, 420) : d \in TextsOf(MaxPieces)}
  /\ backup = NoFile
  /\ tempFile = [p \in Procs |-> NoFile]
  /\ pc = [p \in Procs |-> IF p \in Seq1 THEN "ib_scan" ELSE "idle"]
  /\ op = [p \in Procs |-> IF p \in Seq1 THEN "injectBlock" ELSE "none"]
  /\ args = [p \in Procs |-> NoArgs]
  /\ finalCss = [p \in Procs |-> <<>>]
  /\ finalJs = [p \in Procs |-> <<>>]
  /\ marker \in [Procs -> Markers]
  /\ \A p \in Procs \ Seq1 : marker[p] = HeadMarker
  /\ blockLines \in [Procs -> Blocks]
  /\ \A p \in Procs \ Seq1 : blockLines[p] = << <<"X">> >>
  /\ inserted = [p \in Procs |-> FALSE]
  /\ result = [p \in Procs |-> NoResult]
  /\ pre = [p \in Procs |-> [index |-> index, backup |-> NoFile]]
  /\ reps = [p \in Procs |-> 1]
  /\ firstPost = [p \in Procs |-> NoFile]
  /\ prev = [p \in Procs |-> NoPrev]

NextBlock ==
  \E p \in Seq1 :
    IBScan(p) \/ IBFinish(p) \/ IBUnlinkThrow(p) \/ IBCopyFile(p) \/ IBUnlink(p)

SpecBlock == InitBlock /\ [][NextBlock]_vars

\* The direct call of injectBlock with the read stream, the writer and the
\* final copyFile free to fail.
NextIO ==
  \E p \in Seq1 :
    \/ IBScan(p) \/ IBFinish(p) \/ IBUnlinkThrow(p) \/ IBCopyFile(p) \/ IBUnlink(p)
    \/ IBScanFails(p) \/ IBFinishFails(p) \/ IBCopyFileFails(p)

SpecIO == InitBlock /\ [][NextIO]_vars

\* Two POST /api/inject requests in flight at once: both have been received
\* and are at the first await of injectCode; from there the event loop runs
\* their awaited file operations in any order.
ConcPayloads ==
  {[cssText |-> ct, jsText |-> jt, cssPath |-> "", jsPath |-> ""] :
     ct \in {<<"a{color:red}">>, <<"b{}">>}, jt \in JsTexts}

ConcIndexFiles == {File(d, 420) : d \in {PageLF, PageOneLine, PageNoBody}}
ConcBackupFiles == {NoFile, File(PageLF, 420)}

InitConc ==
  /\ index \in ConcIndexFiles
  /\ backup \in ConcBackupFiles
  /\ tempFile = [p \in Procs |-> NoFile]
  /\ pc = [p \in Procs |-> FirstStep("injectCode")]
  /\ op = [p \in Procs |-> "injectCode"]
  /\ args \in [Procs -> ConcPayloads]
  /\ finalCss = [p \in Procs |-> <<>>]
  /\ finalJs = [p \in Procs |-> <<>>]
  /\ marker = [p \in Procs |-> <<>>]
  /\ blockLines = [p \in Procs |-> <<>>]
  /\ inserted = [p \in Procs |-> FALSE]
  /\ result = [p \in Procs |-> NoResult]
  /\ pre = [p \in Procs |-> [index |-> index, backup |-> backup]]
  /\ reps = [p \in Procs |-> 1]
  /\ firstPost = [p \in Procs |-> NoFile]
  /\ prev = [p \in Procs |-> NoPrev]

NextConc ==
  \E p \in Procs :
    \/ EBAccessBackup(p) \/ EBAccessIndex(p) \/ EBCopyFile(p)
    \/ ICCopyFile(p) \/ ICCss(p) \/ ICJs(p) \/ ICChmod(p)
    \/ IBScan(p) \/ IBFinish(p) \/ IBUnlinkThrow(p) \/ IBCopyFile(p) \/ IBUnlink(p)

SpecConc == InitConc /\ [][NextConc]_vars

\* ------------------------------------------------------------------ claims

\* The request p has ended and was a call of the operation o.
Ended(p, o) == pc[p] = "idle" /\ op[p] = o

\* m occurs in the text t.
Occurs(t, m) == \E k \in 1..(Len(t) - Len(m) + 1) : SubSeq(t, k, k + Len(m) - 1) = m

\* Some line of L contains m.
SomeLineHas(L, m) == \E i \in 1..Len(L) : Occurs(L[i], m)

\* The first line of L that contains m, and where m first starts in a line.
FirstMatch(L, m) ==
  CHOOSE i \in 1..Len(L) : Occurs(L[i], m) /\ \A j \in 1..(i - 1) : ~Occurs(L[j], m)
SplitAt(line, m) ==
  CHOOSE k \in 1..(Len(line) - Len(m) + 1) :
    /\ SubSeq(line, k, k + Len(m) - 1) = m
    /\ \A j \in 1..(k - 1) : SubSeq(line, j, j + Len(m) - 1) # m

\* L with its first line containing m replaced by [before, if not empty],
\* the block B, [after].
ExpectedLines(L, m, B) ==
  LET i == FirstMatch(L, m)
      k == SplitAt(L[i], m)
      before == SubSeq(L[i], 1, k - 1)
      after == SubSeq(L[i], k, Len(L[i]))
  IN  SubSeq(L, 1, i - 1) \o (IF before = <<>> THEN <<>> ELSE <<before>>)
        \o B \o <<after>> \o SubSeq(L, i + 1, Len(L))

\* The bytes of a file whose lines are L, each ended by a line feed.
RECURSIVE Terminated(_)
Terminated(L) == IF L = <<>> THEN <<>> ELSE Head(L) \o <<LF>> \o Terminated(Tail(L))

\* The payload carries an inline style and nothing else.
StyleOnly(a) == Truthy(a.cssText) /\ a.jsText = <<>> /\ a.cssPath = "" /\ a.jsPath = ""

\* The payload carries nothing.
Empty(a) == a = NoArgs

\* C1: a call of injectCode(p) run again and again, nothing else in between,
\* leaves the target file with the content the first of these calls left.
C1_InjectIdempotent ==
  \A p \in Procs :
    Ended(p, "injectCode") /\ reps[p] >= 2 =>
      /\ index.exists = firstPost[p].exists
      /\ index.data = firstPost[p].data

C1_Witness ==
  \E p \in Procs :
    /\ Ended(p, "injectCode") /\ reps[p] = MaxReps
    /\ result[p] = Ok("injected:true")
    /\ index.data # backup.data

\* C2: once the backup file exists no step of any operation changes it, and
\* ensureBackup called when it exists returns {created: false} and writes
\* neither file.
C2_BackupWrittenOnce ==
  /\ [][backup.exists => backup' = backup]_vars
  /\ [](\A p \in Procs :
          Ended(p, "ensureBackup") /\ pre[p].backup.exists =>
            /\ result[p] = Ok("created:false")
            /\ backup = pre[p].backup
            /\ index = pre[p].index)

C2_Witness ==
  \E p \in Procs :
    /\ Ended(p, "ensureBackup") /\ reps[p] = 2
    /\ result[p] = Ok("created:false")
    /\ index.exists /\ index.data # backup.data

\* C3 (the claim as stated): injectCode with no style and no script, called
\* with a target file, returns {injected: false} and leaves the target file and
\* the backup file as they were when it was called.
C3_EmptyInjectTouchesNothing ==
  \A p \in Procs :
    Ended(p, "injectCode") /\ Empty(args[p]) /\ pre[p].index.exists =>
      /\ result[p] = Ok("injected:false")
      /\ index = pre[p].index
      /\ backup = pre[p].backup

\* C4: with a backup file, restoreOriginal leaves the target file with the
\* bytes of the backup file and mode 0644, and the backup file as it was.
C4_RestoreEqualsBackup ==
  \A p \in Procs :
    Ended(p, "restoreOriginal") /\ pre[p].backup.exists =>
      /\ result[p] = Ok("restored")
      /\ index.exists
      /\ index.data = backup.data
      /\ index.mode = Mode644
      /\ backup = pre[p].backup

C4_Witness ==
  \E p \in Procs :
    /\ Ended(p, "restoreOriginal") /\ result[p] = Ok("restored")
    /\ pre[p].index.exists
    /\ pre[p].index.data # backup.data
    /\ pre[p].index.mode # Mode644

\* C5: without a backup file, restoreOriginal throws 'no backup found',
\* leaves the target file as it was and creates no backup file.
C5_RestoreWithoutBackup ==
  \A p \in Procs :
    Ended(p, "restoreOriginal") /\ ~pre[p].backup.exists =>
      /\ result[p] = ErrNoBackup
      /\ index = pre[p].index
      /\ ~backup.exists

C5_Witness ==
  \E p \in Procs :
    /\ Ended(p, "restoreOriginal") /\ result[p] = ErrNoBackup
    /\ index.exists

\* The call is injectCode with an inline style only, made with no backup file
\* and a target file that contains '</head>'.
FreshStyleInject(o, a, pr) ==
  /\ o = "injectCode" /\ StyleOnly(a)
  /\ ~pr.backup.exists /\ pr.index.exists
  /\ Occurs(pr.index.data, HeadMarker)

\* C6: from no backup file and a target file O that contains '</head>',
\* injectCode with an inline style makes the backup file O and the target
\* file the lines of O with the style block before the first '</head>'; a
\* restoreOriginal right after it makes the target file O again.
C6_FullCycle ==
  \A p \in Procs :
    /\ pc[p] = "idle" /\ FreshStyleInject(op[p], args[p], pre[p]) =>
         /\ result[p] = Ok("injected:true")
         /\ backup.exists /\ backup.data = pre[p].index.data
         /\ index.exists
         /\ index.data = Terminated(ExpectedLines(ReadLines(pre[p].index.data),
                                     HeadMarker, StyleBlock(args[p].cssText)))
    /\ Ended(p, "restoreOriginal")
         /\ FreshStyleInject(prev[p].op, prev[p].args, prev[p].pre) =>
         /\ result[p] = Ok("restored")
         /\ index.exists /\ index.data = prev[p].pre.index.data
         /\ backup.data = prev[p].pre.index.data

C6_Witness ==
  \E p \in Procs :
    /\ Ended(p, "restoreOriginal")
    /\ FreshStyleInject(prev[p].op, prev[p].args, prev[p].pre)
    /\ prev[p].result = Ok("injected:true")
    /\ pre[p].index.data # prev[p].pre.index.data
    /\ index.data = prev[p].pre.index.data

\* C7: injectBlock on a file none of whose lines contains the marker throws
\* 'insertion point not found' with the marker, never writes the input file,
\* and has removed its temp file.
C7_NoMarkerNoWrite ==
  \A p \in Procs :
    op[p] = "injectBlock"
      /\ ~SomeLineHas(ReadLines(pre[p].index.data), marker[p]) =>
        /\ index = pre[p].index
        /\ pc[p] = "idle" =>
             /\ result[p] = ErrInsertionPoint(marker[p])
             /\ ~tempFile[p].exists

C7_Witness ==
  \E p \in Procs :
    /\ Ended(p, "injectBlock")
    /\ result[p] = ErrInsertionPoint(BodyMarker)
    /\ Occurs(pre[p].index.data, HeadMarker)
    /\ index = pre[p].index /\ ~tempFile[p].exists

\* C8: when some line contains the marker, injectBlock leaves the lines of the
\* input with only the first such line replaced by [before, if not empty], the
\* block, [after], after starting with the marker; all other lines as they were.
C8_InsertAtFirstMatch ==
  \A p \in Procs :
    Ended(p, "injectBlock")
      /\ SomeLineHas(ReadLines(pre[p].index.data), marker[p]) =>
        LET L == ReadLines(pre[p].index.data)
            line == L[FirstMatch(L, marker[p])]
            after == SubSeq(line, SplitAt(line, marker[p]), Len(line))
        IN  /\ result[p] = Ok("returned")
            /\ SubSeq(after, 1, Len(marker[p])) = marker[p]
            /\ index.data = Terminated(ExpectedLines(L, marker[p], blockLines[p]))

\* The example of the claim: "<head>\n</head>\n", '</head>', ["X"].
C8_Witness ==
  \E p \in Procs :
    /\ Ended(p, "injectBlock")
    /\ pre[p].index.data = <<"<head>", LF>> \o HeadMarker \o <<LF>>
    /\ marker[p] = HeadMarker
    /\ blockLines[p] = << <<"X">> >>
    /\ index.data = <<"<head>", LF, "X", LF>> \o HeadMarker \o <<LF>>

\* C9: ensureBackup never changes the target file; with neither file it
\* throws 'system file not found' and creates no backup file; with the target
\* file and no backup file it returns {created: true} and the backup file has
\* the bytes of the target file.
C9_EnsureBackup ==
  \A p \in Procs :
    /\ op[p] = "ensureBackup" \/ pc[p] \in {"eb_accessBackup", "eb_accessIndex", "eb_copyFile"} =>
         index = pre[p].index
    /\ Ended(p, "ensureBackup") /\ ~pre[p].backup.exists /\ ~pre[p].index.exists =>
         /\ result[p] = ErrSystemFileNotFound
         /\ ~backup.exists
    /\ Ended(p, "ensureBackup") /\ ~pre[p].backup.exists /\ pre[p].index.exists =>
         /\ result[p] = Ok("created:true")
         /\ backup.exists /\ backup.data = index.data

C9_Witness ==
  \E p \in Procs :
    /\ Ended(p, "ensureBackup") /\ ~pre[p].backup.exists
    /\ result[p] = Ok("created:true")
    /\ backup.data = index.data /\ backup.data # <<>>

\* The content the claim gives a channel: the referenced file's text when a
\* file is referenced, else the inline text (empty: the channel is omitted).
Chosen(path, text) == IF path # "" THEN PathText(path) ELSE text
BadReference(path) == path # "" /\ PathKind(path) # "file"

\* C10: for each channel a file reference alone decides when given (a
\* reference that is no readable regular file fails the call, whatever the
\* inline text), else the inline text is used, else the channel is omitted.
C10_ReferenceWins ==
  \A p \in Procs :
    Ended(p, "injectCode") /\ (pre[p].backup.exists \/ pre[p].index.exists) =>
      LET a == args[p]
          css == Chosen(a.cssPath, a.cssText)
          js == Chosen(a.jsPath, a.jsText)
      IN  IF BadReference(a.cssPath) \/ BadReference(a.jsPath)
          THEN /\ result[p] \in {ErrENOENT, ErrNotAFile}
               /\ ~Occurs(index.data, <<"<style>">>)
               /\ ~Occurs(index.data, <<"<script>">>)
          ELSE /\ finalCss[p] = css
               /\ finalJs[p] = js
               /\ result[p] = Ok("injected:false") <=> (css = <<>> /\ js = <<>>)
               /\ result[p] = Ok("injected:true") =>
                    /\ Occurs(index.data, <<"<style>">>) <=> css # <<>>
                    /\ Occurs(index.data, <<"<script>">>) <=> js # <<>>
                    /\ css # <<>> => Occurs(index.data, <<css[1]>>)
                    /\ js # <<>> => Occurs(index.data, <<js[1]>>)

C10_Witness ==
  \E p \in Procs :
    /\ Ended(p, "injectCode")
    /\ args[p].cssPath = PathDir /\ Truthy(args[p].cssText)
    /\ result[p] = ErrNotAFile

\* C11: within a call of injectBlock the input file is written only by the
\* copyFile that follows the whole scan, a found marker and the finished temp
\* file, and only once (it still is as the call found it); a call that ends
\* with a read failure, a write failure or no marker leaves it as it was.
C11_WriteOnlyAfterScan ==
  /\ [][index' # index =>
          \E p \in Procs :
            /\ pc[p] = "ib_copyFile"
            /\ index = pre[p].index
            /\ inserted[p]
            /\ SomeLineHas(ReadLines(index.data), marker[p])
            /\ tempFile[p].exists
            /\ tempFile[p].data =
                 Terminated(ExpectedLines(ReadLines(index.data), marker[p], blockLines[p]))]_vars
  /\ [](\A p \in Procs :
          Ended(p, "injectBlock")
            /\ result[p] \in {ErrRead, ErrWrite, ErrInsertionPoint(marker[p])} =>
              index = pre[p].index)

C11_Witness ==
  \E p \in Procs :
    /\ Ended(p, "injectBlock") /\ result[p] = ErrWrite
    /\ inserted[p]
    /\ SomeLineHas(ReadLines(pre[p].index.data), marker[p])
    /\ index = pre[p].index

\* C12 (the claim as stated): whenever injectBlock has ended, by returning or
\* by throwing, its temp file no longer exists.
C12_TempFileGone ==
  \A p \in Procs : Ended(p, "injectBlock") => ~tempFile[p].exists

\* The bytes b with the style block of css before its first '</head>', and
\* the bytes d with the script block of js before its first '</body>'; an
\* empty css or js adds nothing.
CanStyle(b, css) == css = <<>> \/ SomeLineHas(ReadLines(b), HeadMarker)
StyledData(b, css) ==
  IF css = <<>> THEN b
  ELSE Terminated(ExpectedLines(ReadLines(b), HeadMarker, StyleBlock(css)))
CanScript(d, js) == js = <<>> \/ SomeLineHas(ReadLines(d), BodyMarker)
ScriptedData(d, js) ==
  IF js = <<>> THEN d
  ELSE Terminated(ExpectedLines(ReadLines(d), BodyMarker, ScriptBlock(js)))

\* The style and then the script of the payload a put into the bytes b.
PatchedAs(d, b, css, js) ==
  /\ CanStyle(b, css)
  /\ CanScript(StyledData(b, css), js)
  /\ d = ScriptedData(StyledData(b, css), js)

ChosenCss(a) == Chosen(a.cssPath, a.cssText)
ChosenJs(a) == Chosen(a.jsPath, a.jsText)

\* How many times the token tok is in the text t.
Count(t, tok) == Cardinality({k \in 1..Len(t) : t[k] = tok})

\* C13: with a backup file, the target file a successful injectCode(p) leaves
\* is given by the backup file and p alone, whatever the target file held
\* before (pristine, patched with another payload, or anything else).
C13_FromBackupAndPayloadOnly ==
  \A p \in Procs :
    Ended(p, "injectCode") /\ result[p] = Ok("injected:true") /\ pre[p].backup.exists =>
      /\ backup = pre[p].backup
      /\ index.exists
      /\ PatchedAs(index.data, backup.data, ChosenCss(args[p]), ChosenJs(args[p]))

C13_Witness ==
  \E p \in Procs :
    /\ Ended(p, "injectCode") /\ result[p] = Ok("injected:true")
    /\ pre[p].backup.exists /\ reps[p] = 1
    /\ Count(pre[p].index.data, "<style>") = 1
    /\ Count(index.data, "<style>") = 0
    /\ Count(index.data, "<script>") = 1

\* The steps that write the target file.
WriteSteps == {"ro_copyFile", "ro_chmod", "ic_copyFile", "ib_copyFile", "ic_chmod"}
EnsureSteps == {"eb_accessBackup", "eb_accessIndex", "eb_copyFile"}

\* C14: in sequential execution injectCode writes the target file only once
\* its ensureBackup has returned, no step of injectCode or restoreOriginal
\* writes it while there is no backup file, and an injectCode whose
\* ensureBackup fails writes nothing.
C14_BackupBeforeWrite ==
  /\ [][(index' # index \/ \E p \in Procs : pc[p] \in WriteSteps /\ pc'[p] # pc[p])
          => backup.exists]_vars
  /\ [][(\E p \in Procs : pc[p] \in EnsureSteps) => index' = index]_vars
  /\ [](\A p \in Procs :
          Ended(p, "injectCode") /\ ~pre[p].backup.exists /\ ~pre[p].index.exists =>
            /\ result[p] = ErrSystemFileNotFound
            /\ index = pre[p].index
            /\ ~backup.exists)

C14_Witness ==
  \E p \in Procs :
    /\ Ended(p, "injectCode") /\ ~pre[p].backup.exists
    /\ result[p] = Ok("injected:true")
    /\ backup.exists /\ backup.data = pre[p].index.data
    /\ index.data # backup.data

\* C15: after an injectCode or a restoreOriginal called with a backup file,
\* the target file is the backup file, or the backup file with the style
\* block, the script block or both of the call added: never a second style
\* block or a second script block.
C15_AtMostOneBlockEach ==
  \A p \in Procs :
    pc[p] = "idle" /\ op[p] \in {"injectCode", "restoreOriginal"} /\ pre[p].backup.exists =>
      /\ index.exists /\ backup = pre[p].backup
      /\ \E css \in {<<>>, ChosenCss(args[p])}, js \in {<<>>, ChosenJs(args[p])} :
           PatchedAs(index.data, backup.data, css, js)
      /\ Count(index.data, "<style>") <= Count(backup.data, "<style>") + 1
      /\ Count(index.data, "<script>") <= Count(backup.data, "<script>") + 1

C15_Witness ==
  \E p \in Procs :
    /\ Ended(p, "injectCode") /\ reps[p] = MaxReps
    /\ result[p] = Ok("injected:true")
    /\ Count(backup.data, "<style>") = 0
    /\ Count(index.data, "<style>") = 1
    /\ Count(index.data, "<script>") = 1

\* Both requests have ended.
BothEnded == \A p \in Procs : pc[p] = "idle"

\* C16 (the claim as stated): two concurrent injectCode requests that start
\* without a backup file write the backup file at most once (no copyFile to
\* it once it exists), and when both have ended the backup file holds the
\* content the target file had before them.
C16_ConcurrentBackupOnce ==
  /\ [][\A p \in Procs :
          ~pre[p].backup.exists /\ pc[p] = "eb_copyFile" /\ pc'[p] # pc[p] =>
            ~backup.exists]_vars
  /\ [](BothEnded /\ (\A p \in Procs : ~pre[p].backup.exists) =>
          backup.exists /\ backup.data = pre[1].index.data)

\* C17 (the claim as stated): two concurrent injectCode requests with a style
\* each, started with a backup file, leave no more than one style block in the
\* target file.
C17_ConcurrentOneStyle ==
  BothEnded /\ (\A p \in Procs : pre[p].backup.exists /\ ChosenCss(args[p]) # <<>>) =>
    Count(index.data, "<style>") <= Count(backup.data, "<style>") + 1

\* The first '</head>' of the lines L comes before their first '</body>'.
HeadFirst(L) ==
  LET i == FirstMatch(L, HeadMarker)
      j == FirstMatch(L, BodyMarker)
  IN  i < j \/ (i = j /\ SplitAt(L[i], HeadMarker) < SplitAt(L[i], BodyMarker))

\* The lines L with the style block before their first '</head>' and the
\* script block before their first '</body>', both places taken in L itself:
\* the block of the later place is put in first, so that the search for the
\* earlier place never meets it.
ExpectedBoth(L, css, js) ==
  IF HeadFirst(L)
  THEN ExpectedLines(ExpectedLines(L, BodyMarker, ScriptBlock(js)), HeadMarker, StyleBlock(css))
  ELSE ExpectedLines(ExpectedLines(L, HeadMarker, StyleBlock(css)), BodyMarker, ScriptBlock(js))

\* C18 (the claim as stated): after a successful injectCode with a style and
\* a script, the target file is the backup content with the style block
\* right before the first '</head>' of the backup content and the script block
\* right before the first '</body>' of the backup content.
C18_BothAtBackupPlaces ==
  \A p \in Procs :
    Ended(p, "injectCode") /\ result[p] = Ok("injected:true")
      /\ ChosenCss(args[p]) # <<>> /\ ChosenJs(args[p]) # <<>>
      /\ SomeLineHas(ReadLines(backup.data), HeadMarker)
      /\ SomeLineHas(ReadLines(backup.data), BodyMarker) =>
        index.data = Terminated(ExpectedBoth(ReadLines(backup.data),
                                             ChosenCss(args[p]), ChosenJs(args[p])))

\* C19: an injectCode that fails on a file reference that is no readable
\* regular file has already copied the backup file over the target file:
\* the target file then has the bytes of the backup file, without the blocks
\* it held before.
C19_FailedInjectResets ==
  \A p \in Procs :
    Ended(p, "injectCode") /\ (pre[p].backup.exists \/ pre[p].index.exists)
      /\ (BadReference(args[p].cssPath) \/ BadReference(args[p].jsPath)) =>
        /\ result[p] \in {ErrENOENT, ErrNotAFile}
        /\ backup.exists /\ index.exists
        /\ index.data = backup.data
        /\ pre[p].backup.exists => backup = pre[p].backup

C19_Witness ==
  \E p \in Procs :
    /\ Ended(p, "injectCode") /\ result[p] = ErrNotAFile
    /\ pre[p].backup.exists
    /\ Count(pre[p].index.data, "<style>") = 1
    /\ Count(index.data, "<style>") = 0
    /\ index.data = backup.data

\* The call of p is an injectCode with a style and a script, the backup
\* content has '</head>', and no line of it with the style block put in has
\* '</body>'.
StyleFitsScriptNot(p) ==
  /\ op[p] = "injectCode" /\ backup.exists
  /\ ~BadReference(args[p].cssPath) /\ ~BadReference(args[p].jsPath)
  /\ ChosenCss(args[p]) # <<>> /\ ChosenJs(args[p]) # <<>>
  /\ SomeLineHas(ReadLines(backup.data), HeadMarker)
  /\ ~SomeLineHas(ReadLines(StyledData(backup.data, ChosenCss(args[p]))), BodyMarker)

\* C20: such a call throws 'insertion point not found' for '</body>', never
\* comes to its final chmod, and leaves the target file with the backup
\* content and the style block.
C20_StyleStaysOnScriptFailure ==
  /\ [](\A p \in Procs :
          pc[p] = "idle" /\ StyleFitsScriptNot(p) =>
            /\ result[p] = ErrInsertionPoint(BodyMarker)
            /\ index.exists
            /\ index.data = StyledData(backup.data, ChosenCss(args[p]))
            /\ index.mode \in TempModes)
  /\ [][\A p \in Procs : StyleFitsScriptNot(p) => pc'[p] # "ic_chmod"]_vars

C20_Witness ==
  \E p \in Procs :
    /\ pc[p] = "idle" /\ StyleFitsScriptNot(p)
    /\ result[p] = ErrInsertionPoint(BodyMarker)
    /\ Count(index.data, "<style>") = 1
    /\ index.mode # Mode644

====
